---- MODULE Spec2Model ----
(***************************************************************************)
(* Model of the chained update transaction orchestrator of oracle-core:    *)
(* core/src/cli_commands/prepare_update.rs, struct PrepareUpdate and its   *)
(* methods calc_target_balance, mint_token, build_refresh_box,             *)
(* filter_tx_outputs and execute.                                          *)
(*                                                                         *)
(* The collaborators of ergo-lib and of the node (SimpleBoxSelector,       *)
(* TxBuilder, the signer, the submitter, the contract loaders) are         *)
(* modelled by their observable results: a value or an error, chosen       *)
(* nondeterministically among the results the call can have.               *)
(***************************************************************************)
EXTENDS Integers, Sequences, FiniteSets, TLC

\* ------------------------------------------------------------------ bounds
\* width of the raw box value (u64 in the code), scaled down
ValueBits == 5
\* width of the step counter (u32 in the code), scaled down
CounterBits == 4
\* largest erg_value_per_box and tx_fee drawn for a run
MaxPerStep == 2
\* largest number of unspent boxes the wallet reports
MaxWalletBoxes == 2
\* width of a block height and of the oracle count (u32 in the code), scaled
\* down
HeightBits == 6
\* largest block height and largest epoch length the node and the
\* configuration report
MaxHeight == 3
\* largest number of oracle boxes the datapoint scan holds
MaxOracles == 1
\* largest reward token amount of the pool box
MaxReward == 21

U64Max == 2^ValueBits - 1
\* BoxValue::MAX_RAW is i64::MAX, one bit below the raw width
MaxRaw == 2^(ValueBits - 1) - 1
U32Modulus == 2^CounterBits

\* ------------------------------------------------------------- constants
\* the step budget execute fixes before the initial selection
InitialBudget == 7
\* the number of epochs print_hints_for_voting projects
ProjectedEpochs == 10

\* --------------------------------------------------------------- values
Ok(x) == [ok |-> TRUE, v |-> x, e |-> "none"]
Err(why) == [ok |-> FALSE, v |-> 0, e |-> why]
\* a result not computed yet
NoResult == Err("unset")

\* BoxValue::checked_mul_u32: u64 checked_mul, then the upper bound MAX_RAW
checked_mul_u32(a, n) ==
    IF a * n > U64Max THEN Err("Overflow")
    ELSE IF a * n > MaxRaw THEN Err("OutOfBounds")
    ELSE Ok(a * n)

\* BoxValue::checked_add: u64 checked_add, then the upper bound MAX_RAW
checked_add(a, b) ==
    IF a + b > U64Max THEN Err("Overflow")
    ELSE IF a + b > MaxRaw THEN Err("OutOfBounds")
    ELSE Ok(a + b)

\* the same computation with wrapping arithmetic
calc_target_balance_wrapping(erg_value_per_box, tx_fee, num_transactions) ==
    Ok((erg_value_per_box * num_transactions + tx_fee * num_transactions)
         % (U64Max + 1))

\* PrepareUpdate::calc_target_balance
calc_target_balance(erg_value_per_box, tx_fee, num_transactions) ==
    LET b == checked_mul_u32(erg_value_per_box, num_transactions)
        fees == checked_mul_u32(tx_fee, num_transactions)
    IN  IF ~b.ok THEN b
        ELSE IF ~fees.ok THEN fees
        ELSE checked_add(b.v, fees.v)

\* num_transactions_left - 1 on u32 as a release build computes it
sub_one_u32(n) == (n - 1 + U32Modulus) % U32Modulus

\* ------------------------------------------------- identities and guards
NoId == <<0, 0>>
\* identities of the assets registered in the starting configuration
OldId(j) == <<-1, j>>
\* identity of the j-th unspent box of the wallet
WalletBoxId(j) == <<0, j>>
\* identity of the i-th output of the k-th transaction of the chain
OutputId(k, i) == <<k, i>>

Guard(kind, params, t1, t2) ==
    [kind |-> kind, params |-> params, t1 |-> t1, t2 |-> t2]
\* config.oracle_address.address().script()
wallet_pk_ergo_tree == Guard("wallet", "none", NoId, NoId)
\* a change address of the node that is not the oracle address
OtherChangeTree == Guard("change", "none", NoId, NoId)
\* the guard of the miner's fee box TxBuilder adds
MinerFeeTree == Guard("fee", "none", NoId, NoId)
\* Option::None for different_token_box_guard
NoGuard == Guard("none", "none", NoId, NoId)

Box(id, value, tree, tokens) ==
    [id |-> id, value |-> value, ergo_tree |-> tree, tokens |-> tokens]

\* ------------------------------------------------------- configuration
TokenIds(pool, refresh, update, oracle, reward, ballot) ==
    [pool_nft_token_id |-> pool, refresh_nft_token_id |-> refresh,
     update_nft_token_id |-> update, oracle_token_id |-> oracle,
     reward_token_id |-> reward, ballot_token_id |-> ballot]

\* RefreshContractInputs::build_with and the RefreshBoxWrapperInputs literal
RefreshBoxWrapperInputs(params, oracle, pool, refresh_nft) ==
    [contract_inputs |-> [contract_parameters |-> params,
                          oracle_token_id |-> oracle,
                          pool_nft_token_id |-> pool],
     refresh_nft_token_id |-> refresh_nft]

\* UpdateContractInputs::build_with and the UpdateBoxWrapperInputs literal
UpdateBoxWrapperInputs(params, pool, ballot, update_nft) ==
    [contract_inputs |-> [contract_parameters |-> params,
                          pool_nft_token_id |-> pool,
                          ballot_token_id |-> ballot],
     update_nft_token_id |-> update_nft]

\* BallotBoxWrapperInputs::build_with(parameters, ballot id, update nft id)
BallotBoxWrapperInputs(params, ballot, update_nft) ==
    [contract_inputs |-> [contract_parameters |-> params,
                          update_nft_token_id |-> update_nft],
     ballot_token_id |-> ballot]

\* PoolBoxWrapperInputs::build_with(parameters, refresh, update, pool, reward)
PoolBoxWrapperInputs(params, refresh_nft, update_nft, pool, reward) ==
    [contract_inputs |-> [contract_parameters |-> params,
                          refresh_nft_token_id |-> refresh_nft,
                          update_nft_token_id |-> update_nft],
     pool_nft_token_id |-> pool,
     reward_token_id |-> reward]

\* RefreshContract::checked_load(inputs).ergo_tree()
RefreshErgoTree(ci) ==
    Guard("refresh", ci.contract_parameters, ci.oracle_token_id,
          ci.pool_nft_token_id)

\* UpdateContract::checked_load(inputs).ergo_tree()
UpdateErgoTree(ci) ==
    Guard("update", ci.contract_parameters, ci.pool_nft_token_id,
          ci.ballot_token_id)

\* the OracleConfig the orchestrator is constructed with (self.config)
StartConfig ==
    [token_ids |-> TokenIds(OldId(1), OldId(2), OldId(3), OldId(4),
                            OldId(5), OldId(6)),
     refresh_box_wrapper_inputs |->
         RefreshBoxWrapperInputs("old", OldId(4), OldId(1), OldId(2)),
     update_box_wrapper_inputs |->
         UpdateBoxWrapperInputs("old", OldId(1), OldId(6), OldId(3)),
     ballot_box_wrapper_inputs |->
         BallotBoxWrapperInputs("old", OldId(6), OldId(3)),
     pool_box_wrapper_inputs |->
         PoolBoxWrapperInputs("old", OldId(2), OldId(3), OldId(1), OldId(5))]

\* Option<..ContractParameters>: None or Some(new parameters)
OptParams == {"none", "new"}

\* every UpdateBootstrapConfig: three optional parameter sets and five
\* optional mint details
UpdateBootstrapConfigs ==
    [pool_contract_parameters : OptParams,
     refresh_contract_parameters : OptParams,
     update_contract_parameters : OptParams,
     tokens_to_mint : [refresh_nft : BOOLEAN, update_nft : BOOLEAN,
                       oracle_tokens : BOOLEAN, ballot_tokens : BOOLEAN,
                       reward_tokens : BOOLEAN]]

\* ------------------------------------------------------- coin selection
RECURSIVE SumValues(_)
SumValues(s) == IF s = <<>> THEN 0 ELSE s[1].value + SumValues(Tail(s))

TokensOf(s) == UNION {s[i].tokens : i \in DOMAIN s}

\* the boxes of c at the indices I, in the order of c
SubSeqAt(c, I) ==
    [j \in 1..Cardinality(I) |->
        c[CHOOSE i \in I : Cardinality({x \in I : x <= i}) = j]]

SubSeqs(c) == {SubSeqAt(c, I) : I \in (SUBSET DOMAIN c) \ {{}}}

\* SimpleBoxSelector::select: the selections it can return, each a non-empty
\* subsequence of the candidates that covers the target value and the target
\* tokens, with value left for a change box when tokens are left over; the
\* empty set when it returns an error
select(inputs, target_balance, target_tokens) ==
    {s \in SubSeqs(inputs) :
        /\ SumValues(s) >= target_balance
        /\ target_tokens \subseteq TokensOf(s)
        /\ (TokensOf(s) \ target_tokens # {} => SumValues(s) > target_balance)}

\* ------------------------------------------------------------ the wallet
Min(a, b) == IF a < b THEN a ELSE b

\* value of an unspent box: more than half of the budget, so that one box
\* does not cover the initial target and two do, with value left over
WalletValues(u) == {Min((InitialBudget \div 2 + 1) * u, MaxRaw)}

\* WalletDataSource::get_unspent_wallet_boxes: the lists it can return
Wallets(u) ==
    UNION {[1..n -> WalletValues(u)] : n \in 0..MaxWalletBoxes}

WalletBoxes(vals) ==
    [j \in DOMAIN vals |->
        Box(WalletBoxId(j), vals[j], wallet_pk_ergo_tree, {})]

\* PrepareUpdateInput as prepare_update builds it: the per-step value and
\* the fee are both BASE_FEE (tx_fee: *BASE_FEE, erg_value_per_box:
\* *BASE_FEE), with the change address and the wallet of the node
PrepareUpdateInputs ==
    UNION {
      {[erg_value_per_box |-> base_fee, tx_fee |-> base_fee,
        change_tree |-> c, unspent_boxes |-> WalletBoxes(w)] :
           c \in {wallet_pk_ergo_tree, OtherChangeTree},
           w \in Wallets(base_fee + base_fee)}
      : base_fee \in 1..MaxPerStep}

\* ---------------------------------------------------------------- state
VARIABLES
    pc,                           \* the statement of execute that runs next
    err,                          \* the error execute returned, or "none"
    config,                       \* self.config, the starting OracleConfig
    update_config,                \* the UpdateBootstrapConfig passed to execute
    input,                        \* self.input
    num_transactions_left,        \* self.num_transactions_left
    inputs_for_next_tx,           \* self.inputs_for_next_tx
    built_txs,                    \* self.built_txs
    need_pool_contract_update,    \* local of execute
    need_ballot_contract_update,  \* local of execute
    new_oracle_config,            \* local of execute, the working copy
    submit_calls,                 \* the calls of submit_transaction, in order
    target_balance,               \* local of execute: calc_target_balance(7)
    steps,                        \* per successful step: what it computed
    prior_run,                    \* what an earlier call of execute computed
    files,                        \* the configuration files on disk, by path
    hints                         \* what print_hints_for_voting computed

vars == <<pc, err, config, update_config, input, num_transactions_left,
          inputs_for_next_tx, built_txs, need_pool_contract_update,
          need_ballot_contract_update, new_oracle_config, submit_calls,
          target_balance, steps, prior_run, files, hints>>

\* no earlier call of execute
NoPriorRun == [ran |-> FALSE, steps |-> <<>>, rebuilt |-> {}, built_txs |-> <<>>]

\* the path prepare_update creates its file at
ArtifactPath == "oracle_config_updated.yaml"

\* the path ORACLE_CONFIG was read from
InputConfigPath == "oracle_config.yaml"

\* no file at a path, and a file left there by an earlier run
\* serde_yaml::to_string(&OracleConfigSerde::from(config))
OracleConfigYaml(cfg) == [kind |-> "yaml", body |-> cfg]

\* no file at a path, and a file left there by an earlier run
NoFile == [kind |-> "absent"]
StaleFile ==
    OracleConfigYaml([StartConfig EXCEPT !.token_ids.reward_token_id = OldId(7)])

\* print_hints_for_voting not called yet
NoHints == [outcome |-> "none"]

\* the files before prepare_update runs, with `artifact` at ArtifactPath
FilesAtStart(artifact) ==
    [p \in {InputConfigPath, ArtifactPath} |->
        IF p = InputConfigPath THEN OracleConfigYaml(StartConfig)
        ELSE artifact]

\* PrepareUpdate::new followed by the entry of execute, with the files fs
Start(fs) ==
    /\ files = fs
    /\ hints = NoHints
    /\ pc = "InitialSelection"
    /\ err = "none"
    /\ config = StartConfig
    /\ update_config \in UpdateBootstrapConfigs
    /\ input \in PrepareUpdateInputs
    /\ num_transactions_left = 0
    /\ inputs_for_next_tx = <<>>
    /\ built_txs = <<>>
    /\ need_pool_contract_update = FALSE
    /\ need_ballot_contract_update = FALSE
    /\ new_oracle_config = StartConfig
    /\ submit_calls = <<>>
    /\ target_balance = NoResult
    /\ steps = <<>>
    /\ prior_run = NoPriorRun

Init == Start(FilesAtStart(NoFile))

\* ------------------------------------------------------- one chained step
\* the `?` operator swallowing the error: execute goes on to the broadcast
after_error_continue(stage) == "Submit"

\* the `?` operator: the error leaves execute
after_error(stage) == "Failed"

\* no filtering of the outputs
filter_tx_outputs_none(outputs) == outputs

\* PrepareUpdate::filter_tx_outputs
filter_tx_outputs(outputs) ==
    SelectSeq(outputs, LAMBDA b : b.ergo_tree = wallet_pk_ergo_tree)

\* target_balance of mint_token and build_refresh_box
StepTarget ==
    calc_target_balance(input.erg_value_per_box, input.tx_fee,
                        num_transactions_left)

\* the remainder sized for one step too few
StepRemainderShort ==
    calc_target_balance(input.erg_value_per_box, input.tx_fee,
                        sub_one_u32(sub_one_u32(num_transactions_left)))

\* value of remaining_funds: calc_target_balance(num_transactions_left - 1)
StepRemainder ==
    calc_target_balance(input.erg_value_per_box, input.tx_fee,
                        sub_one_u32(num_transactions_left))

\* the identity of the last selected box
minted_token_id_last(sel) == sel[Len(sel)].id

\* token_id: box_selection.boxes.first().box_id()
minted_token_id(sel) == sel[1].id

\* the guard override ignored
token_box_guard_wallet(different_token_box_guard) == wallet_pk_ergo_tree

\* different_token_box_guard.unwrap_or_else(wallet_pk_ergo_tree)
token_box_guard(different_token_box_guard) ==
    IF different_token_box_guard = NoGuard THEN wallet_pk_ergo_tree
    ELSE different_token_box_guard

\* TxBuilder::build and sign_transaction_with_inputs: the signed transaction
\* of a step: the first output, remaining_funds, the change box of the
\* selection when value is left over, and the miner's fee box
SignedTx(sel, first_tree, first_tokens, target_tokens) ==
    LET k == Len(built_txs) + 1
        change_value == SumValues(sel) - StepTarget.v
        change_tokens == TokensOf(sel) \ target_tokens
        candidates ==
            <<[value |-> input.erg_value_per_box, ergo_tree |-> first_tree,
               tokens |-> first_tokens],
              [value |-> StepRemainder.v, ergo_tree |-> wallet_pk_ergo_tree,
               tokens |-> {}]>>
            \o (IF change_value > 0
                THEN <<[value |-> change_value,
                        ergo_tree |-> input.change_tree,
                        tokens |-> change_tokens]>>
                ELSE <<>>)
            \o <<[value |-> input.tx_fee, ergo_tree |-> MinerFeeTree,
                  tokens |-> {}]>>
    IN  [inputs |-> sel,
         outputs |-> [i \in DOMAIN candidates |->
                        Box(OutputId(k, i), candidates[i].value,
                            candidates[i].ergo_tree, candidates[i].tokens)]]

\* TxBuilder::build rejects outputs worth more than the inputs
TxBalanced(tx) == SumValues(tx.outputs) <= SumValues(tx.inputs)

\* the selections of a step that lead to a signed transaction
StepSelections(target_tokens) ==
    IF StepTarget.ok /\ StepRemainder.ok
    THEN {sel \in select(inputs_for_next_tx, StepTarget.v, target_tokens) :
            TxBalanced(SignedTx(sel, wallet_pk_ergo_tree, {}, target_tokens))}
    ELSE {}

\* the errors a step can end with, in the order of its statements; a
\* counter of zero makes num_transactions_left - 1 panic in a debug build
\* and wrap in a release build
StepErrors(target_tokens) ==
    IF ~StepTarget.ok THEN {"BoxValue"}
    ELSE IF select(inputs_for_next_tx, StepTarget.v, target_tokens) = {}
    THEN {"BoxSelector"}
    ELSE (IF num_transactions_left = 0 THEN {"Panic"} ELSE {})
         \cup (IF StepRemainder.ok THEN {} ELSE {"BoxValue"})
         \cup {"BoxBuilder", "TxBuilder", "Sign"}

\* the counter left as it is
counter_after_step_stuck(n) == n

\* self.num_transactions_left -= 1
counter_after_step(n) == sub_one_u32(n)

\* the spendable set left as it is
next_inputs_stale(tx) == inputs_for_next_tx

\* self.inputs_for_next_tx = self.filter_tx_outputs(signed_tx.outputs)
next_inputs(tx) == filter_tx_outputs(tx.outputs)

\* the three assignments that end mint_token and build_refresh_box
StepDone(kind, sel, tx, override, token) ==
    /\ num_transactions_left' = counter_after_step(num_transactions_left)
    /\ built_txs' = Append(built_txs, tx)
    /\ inputs_for_next_tx' = next_inputs(tx)
    /\ steps' = Append(steps,
                       [kind |-> kind, left |-> num_transactions_left,
                        target |-> StepTarget.v, override |-> override,
                        token |-> token])

\* PrepareUpdate::mint_token with the selection the selector returned
mint_token(sel, different_token_box_guard) ==
    LET token == minted_token_id(sel)
        tx == SignedTx(sel, token_box_guard(different_token_box_guard),
                       {token}, {})
    IN  StepDone("mint", sel, tx, different_token_box_guard, token)

\* no asset required of the selection
required_assets_none(refresh_nft_token) == {}

\* lines 290-294: &[refresh_nft_token.clone()], the assets the selection
\* of build_refresh_box must hold
required_assets(refresh_nft_token) == {refresh_nft_token}

\* PrepareUpdate::build_refresh_box with the selection the selector returned
build_refresh_box(sel, contract_tree, refresh_nft_token) ==
    LET tx == SignedTx(sel, contract_tree, {refresh_nft_token},
                       required_assets(refresh_nft_token))
    IN  StepDone("refresh_box", sel, tx, NoGuard, NoId)

\* an error return of execute out of the statement `stage`
Fail(stage, e) ==
    /\ pc' = after_error(stage)
    /\ err' = e

\* the counter written before the call that failed
counter_after_failed_step_early(n) == sub_one_u32(n)

\* the counter when a `?` of mint_token or build_refresh_box returns: the
\* three assignments of lines 271-273 and 316-318 come after the last of them
counter_after_failed_step(n) == n

\* an error return out of mint_token or build_refresh_box
StepFailed(stage, e) ==
    /\ Fail(stage, e)
    /\ num_transactions_left' = counter_after_failed_step(num_transactions_left)
    /\ UNCHANGED <<inputs_for_next_tx, built_txs, steps>>

\* --------------------------------------------------------------- execute
cfg_vars == <<config, update_config, input, target_balance, prior_run, files,
              hints>>
env_vars == <<update_config, input, target_balance, prior_run, files, hints>>
step_vars == <<num_transactions_left, inputs_for_next_tx, built_txs, steps>>
flag_vars == <<need_pool_contract_update, need_ballot_contract_update>>

\* the initial target computed for a single step
InitialTargetOneStep ==
    calc_target_balance(input.erg_value_per_box, input.tx_fee, 1)

\* lines 341-343: calc_target_balance(self.num_transactions_left) with the
\* budget just assigned at line 335
InitialTarget ==
    calc_target_balance(input.erg_value_per_box, input.tx_fee, InitialBudget)

\* lines 335-350: the budget, the wallet's unspent boxes, the first selection
\* and the working copy of the configuration
InitialSelection ==
    /\ pc = "InitialSelection"
    /\ num_transactions_left' = InitialBudget
    /\ LET target == InitialTarget
           selections ==
               IF target.ok THEN select(input.unspent_boxes, target.v, {})
               ELSE {}
       IN  \/ /\ Fail("InitialSelection", "WalletData")
              /\ UNCHANGED <<target_balance, inputs_for_next_tx,
                             new_oracle_config>>
           \/ /\ \E e \in (IF target.ok THEN {} ELSE {"BoxValue"})
                        \cup (IF target.ok /\ selections = {}
                              THEN {"BoxSelector"} ELSE {}) :
                     Fail("InitialSelection", e)
              /\ target_balance' = target
              /\ UNCHANGED <<inputs_for_next_tx, new_oracle_config>>
           \/ \E sel \in selections :
                /\ target_balance' = target
                /\ inputs_for_next_tx' = sel
                /\ new_oracle_config' = config
                /\ pc' = "OracleMint"
                /\ UNCHANGED err
    /\ UNCHANGED <<config, update_config, input, prior_run, files, hints,
                   built_txs,
                   steps,
                   flag_vars, submit_calls>>

\* self.config and the working copy taken as one and the same object
config_shared(original, working) == working

\* line 348: the working copy is a clone, so that self.config (a shared
\* reference, never written through) reads the same after the working copy
\* was written
config_behind(original, working) == original

\* an `if let Some(details)` block of lines 352-384: mint the tokens to the
\* wallet and record their identity under `field`
MintStage(stage, next, requested, field) ==
    /\ pc = stage
    /\ IF ~requested
       THEN /\ pc' = next
            /\ UNCHANGED <<err, step_vars, new_oracle_config>>
       ELSE \/ /\ Fail(stage, "Panic")
               /\ UNCHANGED <<step_vars, new_oracle_config>>
            \/ /\ \E e \in StepErrors({}) : StepFailed(stage, e)
               /\ UNCHANGED new_oracle_config
            \/ \E sel \in StepSelections({}) :
                 /\ mint_token(sel, NoGuard)
                 /\ new_oracle_config' =
                        [new_oracle_config EXCEPT
                            !.token_ids[field] = minted_token_id(sel)]
                 /\ pc' = next
                 /\ UNCHANGED err
    /\ config' = config_behind(config, new_oracle_config')
    /\ UNCHANGED <<env_vars, flag_vars, submit_calls>>

\* lines 352-362
OracleMint ==
    MintStage("OracleMint", "BallotMint",
              update_config.tokens_to_mint.oracle_tokens, "oracle_token_id")

\* lines 363-373
BallotMint ==
    MintStage("BallotMint", "RewardMint",
              update_config.tokens_to_mint.ballot_tokens, "ballot_token_id")

\* lines 374-384
RewardMint ==
    MintStage("RewardMint", "RefreshMint",
              update_config.tokens_to_mint.reward_tokens, "reward_token_id")

\* the refresh stage entered on new parameters only
RefreshStageRequestedParamsOnly ==
    update_config.refresh_contract_parameters # "none"

\* the condition of line 385
RefreshStageRequested ==
    \/ update_config.refresh_contract_parameters # "none"
    \/ update_config.tokens_to_mint.oracle_tokens

\* a built-in template taken when no refresh parameters are supplied
RefreshParametersDefault ==
    IF update_config.refresh_contract_parameters # "none"
    THEN update_config.refresh_contract_parameters
    ELSE "default"

\* contract_parameters of lines 388-394
RefreshParameters ==
    IF update_config.refresh_contract_parameters # "none"
    THEN update_config.refresh_contract_parameters
    ELSE new_oracle_config.refresh_box_wrapper_inputs
             .contract_inputs.contract_parameters

\* the refresh-mint details taken as present
RefreshMintDetailsAssumed == FALSE

\* lines 396-399: tokens_to_mint.refresh_nft is None
RefreshMintDetailsMissing == ~update_config.tokens_to_mint.refresh_nft

\* lines 385-407: the refresh NFT is minted to the wallet
RefreshMint ==
    /\ pc = "RefreshMint"
    /\ IF ~RefreshStageRequested
       THEN /\ pc' = "UpdateStage"
            /\ UNCHANGED <<err, step_vars, new_oracle_config>>
       ELSE IF RefreshMintDetailsMissing
       THEN /\ Fail("RefreshMint", "NoMintDetails")
            /\ UNCHANGED <<step_vars, new_oracle_config>>
       ELSE \/ /\ \E e \in StepErrors({}) : StepFailed("RefreshMint", e)
               /\ UNCHANGED new_oracle_config
            \/ \E sel \in StepSelections({}) :
                 /\ mint_token(sel, NoGuard)
                 /\ new_oracle_config' =
                        [new_oracle_config EXCEPT
                            !.token_ids.refresh_nft_token_id =
                                minted_token_id(sel)]
                 /\ pc' = "RefreshBox"
                 /\ UNCHANGED err
    /\ config' = config_behind(config, new_oracle_config')
    /\ UNCHANGED <<env_vars, flag_vars, submit_calls>>

\* the pool flag left false by the refresh stage
pool_flag_after_refresh_unset == FALSE

\* line 424: need_pool_contract_update = true
pool_flag_after_refresh == TRUE

\* the NFT just minted taken for the pool NFT
pool_id_for_refresh_minted == new_oracle_config.token_ids.refresh_nft_token_id

\* line 414: self.config.token_ids.pool_nft_token_id
pool_id_for_refresh == config.token_ids.pool_nft_token_id

\* lines 409-424: the refresh contract is rebuilt and the refresh box built
RefreshBox ==
    /\ pc = "RefreshBox"
    /\ LET token == new_oracle_config.token_ids.refresh_nft_token_id
           wrapper ==
               RefreshBoxWrapperInputs(
                   RefreshParameters,
                   new_oracle_config.token_ids.oracle_token_id,
                   pool_id_for_refresh,
                   token)
           rebuilt ==
               [new_oracle_config EXCEPT
                   !.refresh_box_wrapper_inputs = wrapper]
       IN  \/ /\ Fail("RefreshBox", "RefreshContract")
              /\ UNCHANGED <<step_vars, new_oracle_config, flag_vars>>
           \/ /\ \E e \in StepErrors(required_assets(token)) :
                    StepFailed("RefreshBox", e)
              /\ new_oracle_config' = rebuilt
              /\ UNCHANGED flag_vars
           \/ \E sel \in StepSelections(required_assets(token)) :
                /\ build_refresh_box(
                       sel, RefreshErgoTree(wrapper.contract_inputs), token)
                /\ new_oracle_config' = rebuilt
                /\ need_pool_contract_update' = pool_flag_after_refresh
                /\ pc' = "UpdateStage"
                /\ UNCHANGED <<err, need_ballot_contract_update>>
    /\ config' = config_behind(config, new_oracle_config')
    /\ UNCHANGED <<env_vars, submit_calls>>

\* the condition of line 427
UpdateStageRequested ==
    \/ update_config.update_contract_parameters # "none"
    \/ update_config.tokens_to_mint.ballot_tokens

\* update_contract_parameters of lines 430-437
UpdateParameters ==
    IF update_config.update_contract_parameters # "none"
    THEN update_config.update_contract_parameters
    ELSE new_oracle_config.update_box_wrapper_inputs
             .contract_inputs.contract_parameters

\* the ballot flag set only when the ballot asset itself was minted
ballot_flag_after_update_mint_only == update_config.tokens_to_mint.ballot_tokens

\* line 462: need_ballot_contract_update = true
ballot_flag_after_update == TRUE

\* the pool flag left as the refresh stage set it
pool_flag_after_update_kept == need_pool_contract_update

\* line 463: need_pool_contract_update = true
pool_flag_after_update == TRUE

\* lines 427-464: the update contract is rebuilt and the update NFT minted
\* to the script of the rebuilt contract
UpdateStage ==
    /\ pc = "UpdateStage"
    /\ IF ~UpdateStageRequested
       THEN /\ pc' = "BallotCascade"
            /\ UNCHANGED <<err, step_vars, new_oracle_config, flag_vars>>
       ELSE \/ /\ Fail("UpdateStage", "UpdateContract")
               /\ UNCHANGED <<step_vars, new_oracle_config, flag_vars>>
            \/ /\ ~update_config.tokens_to_mint.update_nft
               /\ Fail("UpdateStage", "NoMintDetails")
               /\ UNCHANGED <<step_vars, new_oracle_config, flag_vars>>
            \/ /\ update_config.tokens_to_mint.update_nft
               /\ \E e \in StepErrors({}) : StepFailed("UpdateStage", e)
               /\ UNCHANGED <<new_oracle_config, flag_vars>>
            \/ /\ update_config.tokens_to_mint.update_nft
               /\ \E sel \in StepSelections({}) :
                    LET wrapper ==
                            UpdateBoxWrapperInputs(
                                UpdateParameters,
                                new_oracle_config.token_ids.pool_nft_token_id,
                                new_oracle_config.token_ids.ballot_token_id,
                                minted_token_id(sel))
                    IN  /\ mint_token(
                               sel, UpdateErgoTree(wrapper.contract_inputs))
                        /\ new_oracle_config' =
                               [new_oracle_config EXCEPT
                                   !.token_ids.update_nft_token_id =
                                       minted_token_id(sel),
                                   !.update_box_wrapper_inputs = wrapper]
               /\ need_ballot_contract_update' = ballot_flag_after_update
               /\ need_pool_contract_update' = pool_flag_after_update
               /\ pc' = "BallotCascade"
               /\ UNCHANGED err
    /\ config' = config_behind(config, new_oracle_config')
    /\ UNCHANGED <<env_vars, submit_calls>>

\* lines 466-476
BallotCascade ==
    /\ pc = "BallotCascade"
    /\ IF ~need_ballot_contract_update
       THEN /\ pc' = "PoolCascade"
            /\ UNCHANGED <<err, new_oracle_config>>
       ELSE \/ /\ Fail("BallotCascade", "BallotContract")
               /\ UNCHANGED new_oracle_config
            \/ /\ new_oracle_config' =
                      [new_oracle_config EXCEPT
                          !.ballot_box_wrapper_inputs =
                              BallotBoxWrapperInputs(
                                  new_oracle_config.ballot_box_wrapper_inputs
                                      .contract_inputs.contract_parameters,
                                  new_oracle_config.token_ids.ballot_token_id,
                                  new_oracle_config.token_ids
                                      .update_nft_token_id)]
               /\ pc' = "PoolCascade"
               /\ UNCHANGED err
    /\ config' = config_behind(config, new_oracle_config')
    /\ UNCHANGED <<env_vars, step_vars, flag_vars, submit_calls>>

\* lines 478-495
PoolCascade ==
    /\ pc = "PoolCascade"
    /\ IF ~(update_config.pool_contract_parameters # "none"
            \/ need_pool_contract_update)
       THEN /\ pc' = "Submit"
            /\ UNCHANGED <<err, new_oracle_config>>
       ELSE \/ /\ Fail("PoolCascade", "PoolContract")
               /\ UNCHANGED new_oracle_config
            \/ /\ new_oracle_config' =
                      [new_oracle_config EXCEPT
                          !.pool_box_wrapper_inputs =
                              PoolBoxWrapperInputs(
                                  IF update_config.pool_contract_parameters
                                         # "none"
                                  THEN update_config.pool_contract_parameters
                                  ELSE new_oracle_config
                                           .pool_box_wrapper_inputs
                                           .contract_inputs
                                           .contract_parameters,
                                  new_oracle_config.token_ids
                                      .refresh_nft_token_id,
                                  new_oracle_config.token_ids
                                      .update_nft_token_id,
                                  new_oracle_config.token_ids
                                      .pool_nft_token_id,
                                  new_oracle_config.token_ids
                                      .reward_token_id)]
               /\ pc' = "Submit"
               /\ UNCHANGED err
    /\ config' = config_behind(config, new_oracle_config')
    /\ UNCHANGED <<env_vars, step_vars, flag_vars, submit_calls>>

\* the log iterated from its end
tx_to_submit_reversed(i) == built_txs[Len(built_txs) + 1 - i]

\* the i-th item of `for tx in self.built_txs`
tx_to_submit(i) == built_txs[i]

\* lines 497-500: one iteration of the broadcast loop
SubmitTransaction ==
    /\ pc = "Submit"
    /\ Len(submit_calls) < Len(built_txs)
    /\ LET tx == tx_to_submit(Len(submit_calls) + 1)
       IN  \/ /\ submit_calls' = Append(submit_calls, [tx |-> tx, ok |-> TRUE])
              /\ UNCHANGED <<pc, err>>
           \/ /\ submit_calls' = Append(submit_calls, [tx |-> tx, ok |-> FALSE])
              /\ Fail("Submit", "Node")
    /\ UNCHANGED <<cfg_vars, step_vars, flag_vars, new_oracle_config>>

\* line 501: Ok(new_oracle_config) once the loop is over
ReturnConfig ==
    /\ pc = "Submit"
    /\ Len(submit_calls) = Len(built_txs)
    /\ pc' = "Done"
    /\ UNCHANGED <<err, cfg_vars, step_vars, flag_vars, new_oracle_config,
                   submit_calls>>

Next ==
    \/ InitialSelection
    \/ OracleMint
    \/ BallotMint
    \/ RewardMint
    \/ RefreshMint
    \/ RefreshBox
    \/ UpdateStage
    \/ BallotCascade
    \/ PoolCascade
    \/ SubmitTransaction
    \/ ReturnConfig

Spec == Init /\ [][Next]_vars

TypeOK ==
    /\ pc \in {"InitialSelection", "OracleMint", "BallotMint", "RewardMint",
               "RefreshMint", "RefreshBox", "UpdateStage", "BallotCascade",
               "PoolCascade", "Submit", "Done", "Failed"}
    /\ num_transactions_left \in 0..(U32Modulus - 1)

\* ------------------------------------------- calc_target_balance alone
\* every per-step value and fee a BoxValue can hold
CalcInputs ==
    [erg_value_per_box : 1..MaxRaw, tx_fee : 1..MaxRaw,
     change_tree : {wallet_pk_ergo_tree}, unspent_boxes : {<<>>}]

CalcInit ==
    /\ pc = "Calc"
    /\ err = "none"
    /\ config = StartConfig
    /\ update_config \in
           {c \in UpdateBootstrapConfigs :
               /\ c.pool_contract_parameters = "none"
               /\ c.refresh_contract_parameters = "none"
               /\ c.update_contract_parameters = "none"
               /\ \A m \in DOMAIN c.tokens_to_mint : ~c.tokens_to_mint[m]}
    /\ input \in CalcInputs
    /\ num_transactions_left \in 0..(U32Modulus - 1)
    /\ inputs_for_next_tx = <<>>
    /\ built_txs = <<>>
    /\ need_pool_contract_update = FALSE
    /\ need_ballot_contract_update = FALSE
    /\ new_oracle_config = StartConfig
    /\ submit_calls = <<>>
    /\ target_balance = NoResult
    /\ steps = <<>>
    /\ prior_run = NoPriorRun
    /\ files = FilesAtStart(NoFile)
    /\ hints = NoHints

\* a call of calc_target_balance(num_transactions_left)
CalcApply ==
    /\ pc = "Calc"
    /\ target_balance' =
           calc_target_balance(input.erg_value_per_box, input.tx_fee,
                               num_transactions_left)
    /\ pc' = "CalcDone"
    /\ UNCHANGED <<err, config, update_config, input, num_transactions_left,
                   inputs_for_next_tx, built_txs, flag_vars,
                   new_oracle_config, submit_calls, steps, prior_run, files,
                   hints>>

CalcNext == CalcApply

CalcSpec == CalcInit /\ [][CalcNext]_vars

\* ------------------------------------------------- execute called again
\* the parameter sets of the working configuration that are no longer the
\* starting ones
RebuiltContracts ==
    {f \in {"refresh_box_wrapper_inputs", "update_box_wrapper_inputs",
             "ballot_box_wrapper_inputs", "pool_box_wrapper_inputs"} :
        new_oracle_config[f] # config[f]}

\* the asset identities minted by a sequence of steps
MintedTokens(done) ==
    {done[k].token : k \in {i \in DOMAIN done : done[i].kind = "mint"}}

\* prepare_update run a second time after the node rejected the first
\* transaction of the first run: nothing was accepted, so the wallet, the
\* height and the update specification are what they were; PrepareUpdate::new
\* builds a fresh orchestrator and execute starts over
Rerun ==
    /\ pc = "Failed"
    /\ err = "Node"
    /\ Len(submit_calls) = 1
    /\ ~prior_run.ran
    /\ prior_run' = [ran |-> TRUE, steps |-> steps,
                     rebuilt |-> RebuiltContracts, built_txs |-> built_txs]
    /\ pc' = "InitialSelection"
    /\ err' = "none"
    /\ num_transactions_left' = 0
    /\ inputs_for_next_tx' = <<>>
    /\ built_txs' = <<>>
    /\ need_pool_contract_update' = FALSE
    /\ need_ballot_contract_update' = FALSE
    /\ new_oracle_config' = config
    /\ submit_calls' = <<>>
    /\ target_balance' = NoResult
    /\ steps' = <<>>
    /\ UNCHANGED <<config, update_config, input, files, hints>>

\* the runs of one wallet of two boxes, with the base fee as per-step value
\* and fee (prepare_update passes BASE_FEE for both) and the change sent
\* away from the wallet
RerunInit ==
    /\ Init
    /\ input.erg_value_per_box = 1
    /\ input.tx_fee = 1
    /\ input.change_tree = OtherChangeTree
    /\ Len(input.unspent_boxes) = 2

RerunNext ==
    \/ Next
    \/ Rerun

RerunSpec == RerunInit /\ [][RerunNext]_vars

\* ------------------------------------------- prepare_update after execute
\* the result of execute let through whatever it is
execute_returned_any == pc \in {"Done", "Failed"}

\* `prepare.execute(config)?`: prepare_update goes on only with Ok(new_config)
execute_returned_ok == pc = "Done"

\* a file created and not written to the end
PartialFile == [kind |-> "partial"]

\* the rest of prepare_update: the new configuration is serialized, the
\* file is created (or truncated) at ArtifactPath and written; the
\* serialization and the creation can fail before the file is touched, the
\* write after it was created
WriteArtifact ==
    /\ execute_returned_ok
    /\ \/ /\ \E e \in {"SerdeYaml", "Io"} : Fail("WriteArtifact", e)
          /\ UNCHANGED files
       \/ /\ Fail("WriteArtifact", "Io")
          /\ files' = [files EXCEPT ![ArtifactPath] = PartialFile]
       \/ /\ files' =
                 [files EXCEPT
                     ![ArtifactPath] = OracleConfigYaml(new_oracle_config)]
          /\ pc' = "Written"
          /\ UNCHANGED err
    /\ UNCHANGED <<config, update_config, input, target_balance, prior_run,
                   step_vars, flag_vars, new_oracle_config, submit_calls,
                   hints>>

\* ------------------------------------------------ print_hints_for_voting
HeightModulus == 2^HeightBits

\* an unsigned value of the width `modulus` out of the integer x
Wrap(x, modulus) == ((x % modulus) + modulus) % modulus

\* `a - b` of unsigned integers: the wrapped value, and whether the
\* difference left the range
unchecked_sub(a, b, modulus) ==
    [v |-> Wrap(a - b, modulus), overflow |-> a - b < 0]

\* `a + b` of unsigned integers
unchecked_add(a, b, modulus) ==
    [v |-> Wrap(a + b, modulus), overflow |-> a + b >= modulus]

\* `a * b` of unsigned integers
unchecked_mul(a, b, modulus) ==
    [v |-> Wrap(a * b, modulus), overflow |-> a * b >= modulus]

\* `x as u64` of a u32: the value, zero-extended
as_u64(x) == x

Max(a, b) == IF a >= b THEN a ELSE b

\* nondecreasing sequences of at most n heights up to h
RECURSIVE HeightLists(_, _)
HeightLists(n, h) ==
    IF n = 0 THEN {<<>>}
    ELSE HeightLists(n - 1, h) \cup
         {Append(l, x) : l \in {k \in HeightLists(n - 1, h) : Len(k) = n - 1},
                          x \in 0..h}

\* what print_hints_for_voting reads: the epoch length of ORACLE_CONFIG, the
\* node's height, the creation heights of the oracle boxes of the datapoint
\* scan, and the pool box's creation height and reward token amount; no box
\* was created above the current height
NodeAnswers ==
    UNION {[epoch_length : 0..MaxHeight,
            current_height : {h},
            oracle_boxes :
                {l \in HeightLists(MaxOracles, h) :
                    \A i \in 1..(Len(l) - 1) : l[i] <= l[i + 1]},
            pool_box_height : 0..h,
            reward_tokens_left : 0..MaxReward] : h \in 0..MaxHeight}

\* min_oracle_box_height
min_oracle_box_height(node) ==
    unchecked_sub(node.current_height, node.epoch_length, HeightModulus)

\* active_oracle_count: the oracle boxes created at min_height or above
active_oracle_count(node, min_height) ==
    Cardinality({i \in DOMAIN node.oracle_boxes :
                    node.oracle_boxes[i] >= min_height})

\* next_epoch_height
next_epoch_height(node) ==
    LET epoch_end == unchecked_add(node.pool_box_height, node.epoch_length,
                                   HeightModulus)
    IN  [v |-> Max(epoch_end.v, node.current_height),
         overflow |-> epoch_end.overflow]

\* the two arguments of the info! of the loop, for the epoch i
hint_line(node, next_height, count, i) ==
    LET step == unchecked_add(node.epoch_length, 1, HeightModulus)
        ahead == unchecked_mul(i, step.v, HeightModulus)
        height == unchecked_add(next_height, ahead.v, HeightModulus)
        twice == unchecked_mul(count, 2, HeightModulus)
        spent == unchecked_mul(i + 1, twice.v, HeightModulus)
        reward == unchecked_sub(node.reward_tokens_left, as_u64(spent.v),
                                U64Max + 1)
    IN  [height |-> height.v,
         reward |-> reward.v,
         overflow |-> \/ step.overflow \/ ahead.overflow \/ height.overflow
                      \/ twice.overflow \/ spent.overflow
                      \/ reward.overflow]

\* print_hints_for_voting from the subtraction of line 146 on: with overflow
\* checks (a debug build) the first operation leaving its range panics, and
\* without them (a release build) its result wraps and the function goes on
print_hints_for_voting(node, overflow_checks) ==
    LET min_height == min_oracle_box_height(node)
        count == active_oracle_count(node, min_height.v)
        next_height == next_epoch_height(node)
        line(i) == hint_line(node, next_height.v, count, i)
        overflowing == {i \in 0..(ProjectedEpochs - 1) : line(i).overflow}
        printed ==
            IF min_height.overflow /\ overflow_checks THEN 0
            ELSE IF next_height.overflow /\ overflow_checks THEN 0
            ELSE IF overflow_checks /\ overflowing # {}
                 THEN CHOOSE i \in overflowing : \A j \in overflowing : i <= j
            ELSE ProjectedEpochs
    IN  [outcome |-> IF printed = ProjectedEpochs THEN "ok" ELSE "panic",
         node |-> node,
         overflow_checks |-> overflow_checks,
         min_oracle_box_height |-> min_height.v,
         active_oracle_count |->
             IF min_height.overflow /\ overflow_checks THEN 0 ELSE count,
         lines |-> [k \in 1..printed |->
                       [height |-> line(k - 1).height,
                        reward |-> line(k - 1).reward]]]

\* `print_hints_for_voting()?` at the end of prepare_update: the node's
\* height cannot be read, one of the unwraps of the pool's boxes panics, or
\* the hints are computed from what was read
PrintHints ==
    /\ pc = "Written"
    /\ \/ /\ \E e \in {"Node", "Panic"} : Fail("PrintHints", e)
          /\ UNCHANGED hints
       \/ \E node \in NodeAnswers, overflow_checks \in BOOLEAN :
             /\ hints' = print_hints_for_voting(node, overflow_checks)
             /\ IF hints'.outcome = "ok"
                THEN pc' = "Hinted" /\ UNCHANGED err
                ELSE Fail("PrintHints", "Panic")
    /\ UNCHANGED <<config, update_config, input, target_balance, prior_run,
                   step_vars, flag_vars, new_oracle_config, submit_calls,
                   files>>

\* prepare_update as it is called: per-step value and fee of one BASE_FEE,
\* a wallet of at most two boxes, and at ArtifactPath either no file or the
\* file of an earlier run
PrepareInit ==
    /\ \E artifact \in {NoFile, StaleFile} : Start(FilesAtStart(artifact))
    /\ input.erg_value_per_box = 1
    /\ Len(input.unspent_boxes) <= 2

PrepareNext ==
    \/ Next
    \/ WriteArtifact

PrepareSpec == PrepareInit /\ [][PrepareNext]_vars

\* prepare_update to its end, print_hints_for_voting included, for the
\* update specification with all five mints and all three parameter sets,
\* a wallet of two boxes and no file at ArtifactPath
HintsInit ==
    /\ Init
    /\ update_config.pool_contract_parameters # "none"
    /\ update_config.refresh_contract_parameters # "none"
    /\ update_config.update_contract_parameters # "none"
    /\ \A t \in DOMAIN update_config.tokens_to_mint :
           update_config.tokens_to_mint[t]
    /\ input.erg_value_per_box = 1
    /\ input.change_tree = OtherChangeTree
    /\ Len(input.unspent_boxes) = 2

HintsNext ==
    \/ PrepareNext
    \/ PrintHints

HintsSpec == HintsInit /\ [][HintsNext]_vars

\* ---------------------------------------------------------- properties
Range(s) == {s[i] : i \in DOMAIN s}
Ids(s) == {s[i].id : i \in DOMAIN s}
PerStep == input.erg_value_per_box + input.tx_fee
LastTx == built_txs[Len(built_txs)]
Terminal == pc \in {"Done", "Failed"}

\* C1: once a step has succeeded, the spendable set is exactly the set of
\* the outputs of the last signed transaction whose guard is the wallet
\* guard, each once, and holds no box under any other guard.
C1_SpendableIsWalletGuardedOutputs ==
    built_txs # <<>> =>
        /\ Range(inputs_for_next_tx) =
               {b \in Range(LastTx.outputs) : b.ergo_tree = wallet_pk_ergo_tree}
        /\ Cardinality(Range(inputs_for_next_tx)) = Len(inputs_for_next_tx)
        /\ \A b \in Range(inputs_for_next_tx) :
               b.ergo_tree.kind \notin {"update", "refresh", "fee", "change"}

\* C1 witness: the update NFT was minted to the update contract and the
\* spendable set holds the wallet-guarded outputs only
C1_Witness ==
    /\ built_txs # <<>>
    /\ \E b \in Range(LastTx.outputs) : b.ergo_tree.kind = "update"
    /\ \E b \in Range(LastTx.outputs) : b.ergo_tree.kind = "change"
    /\ inputs_for_next_tx # <<>>

\* C2: when execute ended with an error of a stage before the broadcast
\* loop, submit_transaction was never called.
C2_NoSubmitOnEarlyFailure ==
    (err \notin {"none", "Node"}) => submit_calls = <<>>

\* C2 witness: signing failed after two transactions were logged
C2_Witness ==
    /\ pc = "Failed"
    /\ err = "Sign"
    /\ Len(built_txs) >= 2
    /\ submit_calls = <<>>

C4_SubmitInLogOrder ==
    /\ Len(submit_calls) <= Len(built_txs)
    /\ \A i \in DOMAIN submit_calls : submit_calls[i].tx = built_txs[i]
    /\ \A i, j \in DOMAIN submit_calls :
           i # j => submit_calls[i].tx # submit_calls[j].tx

\* C4 witness: three transactions submitted out of a longer log
C4_Witness ==
    /\ Len(submit_calls) = 3
    /\ Len(built_txs) >= 4
    /\ \A i \in DOMAIN submit_calls : submit_calls[i].ok

\* C5: a failed submission is the last call: the earlier transactions were
\* submitted, the later ones are never submitted, and execute has returned
\* the error instead of a configuration.
C5_SubmitFailureStops ==
    \A i \in DOMAIN submit_calls :
        ~submit_calls[i].ok =>
            /\ i = Len(submit_calls)
            /\ \A j \in 1..(i - 1) :
                   submit_calls[j].ok /\ submit_calls[j].tx = built_txs[j]
            /\ submit_calls[i].tx = built_txs[i]
            /\ pc = "Failed"
            /\ err = "Node"

\* C5 witness: the second of at least three transactions failed to submit
C5_Witness ==
    /\ Len(submit_calls) = 2
    /\ ~submit_calls[2].ok
    /\ Len(built_txs) >= 3

\* C6: the first transaction spends boxes of the initial selection over the
\* wallet's unspent boxes, every later transaction spends wallet-guarded
\* outputs of the transaction before it, and no box is spent twice.
C6_ChainedInputs ==
    /\ (built_txs = <<>> =>
           Range(inputs_for_next_tx) \subseteq Range(input.unspent_boxes))
    /\ \A k \in DOMAIN built_txs :
           /\ built_txs[k].inputs # <<>>
           /\ IF k = 1
              THEN Range(built_txs[k].inputs) \subseteq
                       Range(input.unspent_boxes)
              ELSE Range(built_txs[k].inputs) \subseteq
                       {b \in Range(built_txs[k - 1].outputs) :
                           b.ergo_tree = wallet_pk_ergo_tree}
    /\ \A j, k \in DOMAIN built_txs :
           j # k => Ids(built_txs[j].inputs) \cap Ids(built_txs[k].inputs) = {}

\* C6 witness: a chain of six transactions, the first spending two boxes
C6_Witness ==
    /\ Len(built_txs) = 6
    /\ Len(built_txs[1].inputs) = 2
    /\ Len(built_txs[4].inputs) >= 2

\* C7: calc_target_balance(n) is n * (value + fee) when the two products
\* and their sum fit the value type, and an error otherwise.
C7_CalcTargetBalance ==
    pc = "CalcDone" =>
        LET v == input.erg_value_per_box
            f == input.tx_fee
            n == num_transactions_left
            fits == n * v <= MaxRaw /\ n * f <= MaxRaw
                    /\ n * v + n * f <= MaxRaw
        IN  IF fits
            THEN target_balance.ok /\ target_balance.v = n * (v + f)
            ELSE ~target_balance.ok
                 /\ target_balance.e \in {"Overflow", "OutOfBounds"}

\* C7 witness: both products fit and the sum does not
C7_Witness ==
    /\ pc = "CalcDone"
    /\ num_transactions_left * input.erg_value_per_box <= MaxRaw
    /\ num_transactions_left * input.tx_fee <= MaxRaw
    /\ num_transactions_left * PerStep > MaxRaw
    /\ ~target_balance.ok

\* C8: the initial selection targets 7 * (value + fee); the k-th step ran
\* with the counter 7 - (k - 1), targeted counter * (value + fee), spent
\* inputs covering that target, and its second output is the wallet-guarded
\* remainder of (counter - 1) * (value + fee).
C8_TargetAndRemainder ==
    /\ (target_balance.ok => target_balance.v = InitialBudget * PerStep)
    /\ (pc \notin {"InitialSelection", "Failed"} => target_balance.ok)
    /\ Len(steps) = Len(built_txs)
    /\ \A k \in DOMAIN steps :
           /\ steps[k].left = InitialBudget - (k - 1)
           /\ steps[k].target = steps[k].left * PerStep
           /\ SumValues(built_txs[k].inputs) >= steps[k].target
           /\ built_txs[k].outputs[2].ergo_tree = wallet_pk_ergo_tree
           /\ built_txs[k].outputs[2].value = (steps[k].left - 1) * PerStep
           /\ built_txs[k].outputs[2].tokens = {}

\* C8 witness: the refresh box step and a step with a protocol-guarded
\* first output are in the log
C8_Witness ==
    /\ Len(steps) = 6
    /\ steps[5].kind = "refresh_box"
    /\ steps[6].override # NoGuard

\* C9: the asset a mint step returns, and the one its first output carries,
\* has the identity of the first input of the step's transaction; the first
\* output is guarded by the override when one was given, by the wallet
\* guard otherwise.
C9_MintedIdentityAndGuard ==
    \A k \in DOMAIN steps :
        steps[k].kind = "mint" =>
            /\ steps[k].token = built_txs[k].inputs[1].id
            /\ built_txs[k].outputs[1].tokens = {built_txs[k].inputs[1].id}
            /\ built_txs[k].outputs[1].ergo_tree =
                   IF steps[k].override = NoGuard THEN wallet_pk_ergo_tree
                   ELSE steps[k].override

\* C9 witness: a mint with a guard override whose selection has two boxes
C9_Witness ==
    \E k \in DOMAIN steps :
        /\ steps[k].kind = "mint"
        /\ steps[k].override.kind = "update"
        /\ Len(built_txs[k].inputs) >= 2
        /\ k >= 2 /\ steps[k - 1].override = NoGuard

\* Scenario A: only the oracle tokens are requested
ScenarioA ==
    /\ update_config.pool_contract_parameters = "none"
    /\ update_config.refresh_contract_parameters = "none"
    /\ update_config.update_contract_parameters = "none"
    /\ update_config.tokens_to_mint =
           [refresh_nft |-> FALSE, update_nft |-> FALSE,
            oracle_tokens |-> TRUE, ballot_tokens |-> FALSE,
            reward_tokens |-> FALSE]

\* the working configuration differs from the starting one in the oracle
\* token identity only
OnlyOracleIdChanged ==
    /\ new_oracle_config.token_ids.oracle_token_id
           # config.token_ids.oracle_token_id
    /\ new_oracle_config =
           [config EXCEPT !.token_ids.oracle_token_id =
                              new_oracle_config.token_ids.oracle_token_id]

\* C10 as stated: in Scenario A, when no collaborator fails, execute
\* returns a configuration after exactly one signed transaction, with both
\* cascade flags false and only the oracle identity changed.
C10_ScenarioA_Original ==
    (ScenarioA /\ Terminal /\ err \in {"none", "NoMintDetails"}) =>
        /\ pc = "Done"
        /\ Len(built_txs) = 1
        /\ ~need_pool_contract_update
        /\ ~need_ballot_contract_update
        /\ OnlyOracleIdChanged

\* C10 amended: in Scenario A execute never returns a configuration; when
\* no collaborator fails it signs exactly one transaction, the oracle mint,
\* and then fails for missing mint details of the refresh NFT, with both
\* cascade flags false, nothing submitted, and the working configuration
\* differing from the starting one in the oracle identity only.
C10_ScenarioA_Amended ==
    ScenarioA =>
        /\ pc # "Done"
        /\ Len(built_txs) <= 1
        /\ ~need_pool_contract_update
        /\ ~need_ballot_contract_update
        /\ submit_calls = <<>>
        /\ (Terminal /\ err \in {"none", "NoMintDetails"} =>
               /\ pc = "Failed"
               /\ err = "NoMintDetails"
               /\ Len(built_txs) = 1
               /\ OnlyOracleIdChanged)

\* C10 witness: Scenario A ended for missing mint details after one
\* signed transaction
C10_Witness ==
    /\ ScenarioA
    /\ pc = "Failed"
    /\ err = "NoMintDetails"
    /\ Len(built_txs) = 1

\* every output of every logged transaction
AllOutputs == UNION {Range(built_txs[k].outputs) : k \in DOMAIN built_txs}

\* the update stage was entered and left without an error
UpdateStageSucceeded ==
    /\ UpdateStageRequested
    /\ \/ pc \in {"BallotCascade", "PoolCascade", "Submit", "Done"}
       \/ pc = "Failed" /\ err \in {"BallotContract", "PoolContract", "Node"}

\* the template a contract has after a run: the explicit one when given,
\* the one of the starting configuration otherwise
TemplateAfter(explicit, start) == IF explicit # "none" THEN explicit ELSE start

\* C11: after a successful update stage, every output carrying the new
\* update NFT is guarded by the script of the update contract rebuilt in
\* that stage (from the pool and ballot identities of the working
\* configuration), which is not the wallet guard, and both cascade flags
\* are true.
C11_UpdateNftUnderUpdateContract ==
    UpdateStageSucceeded =>
        LET nft == new_oracle_config.token_ids.update_nft_token_id
            rebuilt ==
                UpdateBoxWrapperInputs(
                    TemplateAfter(
                        update_config.update_contract_parameters,
                        config.update_box_wrapper_inputs.contract_inputs
                            .contract_parameters),
                    new_oracle_config.token_ids.pool_nft_token_id,
                    new_oracle_config.token_ids.ballot_token_id,
                    nft)
            carriers == {b \in AllOutputs : nft \in b.tokens}
        IN  /\ need_ballot_contract_update
            /\ need_pool_contract_update
            /\ nft # config.token_ids.update_nft_token_id
            /\ new_oracle_config.update_box_wrapper_inputs = rebuilt
            /\ carriers # {}
            /\ \A b \in carriers :
                   /\ b.ergo_tree = UpdateErgoTree(rebuilt.contract_inputs)
                   /\ b.ergo_tree # wallet_pk_ergo_tree

\* C11 witness: a run returned after an update stage entered for a ballot
\* mint alone, so that the rebuilt contract embeds the new ballot identity
C11_Witness ==
    /\ pc = "Done"
    /\ update_config.update_contract_parameters = "none"
    /\ update_config.tokens_to_mint.ballot_tokens
    /\ \E b \in AllOutputs :
           /\ new_oracle_config.token_ids.update_nft_token_id \in b.tokens
           /\ b.ergo_tree.kind = "update"
           /\ b.ergo_tree.t2 # config.token_ids.ballot_token_id

\* the run is past the ballot cascade without an error
PastBallotCascade == pc \in {"PoolCascade", "Submit", "Done"}

\* Scenario D: new update parameters and no ballot mint
ScenarioD ==
    /\ update_config.update_contract_parameters # "none"
    /\ ~update_config.tokens_to_mint.ballot_tokens

\* C12: with update parameters supplied and no ballot mint, every run that
\* passes the ballot cascade has rebuilt the ballot parameter set from the
\* starting template, the unchanged ballot identity and the new update NFT
\* identity.
C12_ScenarioD_BallotRebuilt ==
    (ScenarioD /\ PastBallotCascade) =>
        /\ new_oracle_config.token_ids.ballot_token_id
               = config.token_ids.ballot_token_id
        /\ new_oracle_config.token_ids.update_nft_token_id
               # config.token_ids.update_nft_token_id
        /\ new_oracle_config.ballot_box_wrapper_inputs =
               BallotBoxWrapperInputs(
                   config.ballot_box_wrapper_inputs.contract_inputs
                       .contract_parameters,
                   config.token_ids.ballot_token_id,
                   new_oracle_config.token_ids.update_nft_token_id)
        /\ new_oracle_config.ballot_box_wrapper_inputs
               # config.ballot_box_wrapper_inputs

\* C12 witness: a Scenario D run returned its configuration
C12_Witness ==
    /\ ScenarioD
    /\ pc = "Done"
    /\ Len(submit_calls) > 0
    /\ new_oracle_config.ballot_box_wrapper_inputs
           # config.ballot_box_wrapper_inputs

\* Scenario B: the refresh stage entered by an oracle mint, without new
\* refresh parameters
ScenarioB ==
    /\ update_config.refresh_contract_parameters = "none"
    /\ update_config.tokens_to_mint.oracle_tokens

\* the run is past the refresh stage without an error
PastRefreshStage ==
    pc \in {"UpdateStage", "BallotCascade", "PoolCascade", "Submit", "Done"}

\* the run is past the pool cascade without an error
PastPoolCascade == pc \in {"Submit", "Done"}

\* C13: when the refresh stage has run without explicit refresh parameters,
\* the refresh parameter set is the starting template rebuilt with the
\* current oracle identity and the newly minted refresh NFT identity, the
\* pool flag is true, and the pool parameter set of the output embeds the
\* new refresh NFT identity.
C13_ScenarioB_RefreshRebuilt ==
    (ScenarioB /\ PastRefreshStage) =>
        LET nft == new_oracle_config.token_ids.refresh_nft_token_id
        IN  /\ nft # config.token_ids.refresh_nft_token_id
            /\ \E k \in DOMAIN steps :
                   steps[k].kind = "mint" /\ steps[k].token = nft
            /\ new_oracle_config.refresh_box_wrapper_inputs =
                   RefreshBoxWrapperInputs(
                       config.refresh_box_wrapper_inputs.contract_inputs
                           .contract_parameters,
                       new_oracle_config.token_ids.oracle_token_id,
                       config.token_ids.pool_nft_token_id,
                       nft)
            /\ new_oracle_config.token_ids.oracle_token_id
                   # config.token_ids.oracle_token_id
            /\ need_pool_contract_update
            /\ PastPoolCascade =>
                   new_oracle_config.pool_box_wrapper_inputs.contract_inputs
                       .refresh_nft_token_id = nft

\* C13 witness: a Scenario B run with no update stage returned its
\* configuration with the new refresh NFT in the pool parameter set
C13_Witness ==
    /\ ScenarioB
    /\ ~UpdateStageRequested
    /\ pc = "Done"
    /\ new_oracle_config.pool_box_wrapper_inputs.contract_inputs
           .refresh_nft_token_id # config.token_ids.refresh_nft_token_id

\* the update specification requires no transaction and no rebuild
EmptyUpdate ==
    /\ update_config.pool_contract_parameters = "none"
    /\ update_config.refresh_contract_parameters = "none"
    /\ update_config.update_contract_parameters = "none"
    /\ \A t \in DOMAIN update_config.tokens_to_mint :
           ~update_config.tokens_to_mint[t]

\* Scenario E: the wallet holds less than the target for the whole budget
ScenarioE ==
    LET whole == calc_target_balance(input.erg_value_per_box, input.tx_fee,
                                     InitialBudget)
    IN  whole.ok /\ SumValues(input.unspent_boxes) < whole.v

\* C14: a wallet that cannot cover calc_target_balance(7) ends the run at
\* the initial selection (with the selection error, or the wallet error
\* when the wallet could not be read) whatever the update specification
\* asks for: no step ran, the log is empty and nothing was submitted.
C14_ScenarioE_FailsBeforeSigning ==
    ScenarioE =>
        /\ pc \in {"InitialSelection", "Failed"}
        /\ pc = "Failed" => err \in {"BoxSelector", "WalletData"}
        /\ steps = <<>>
        /\ built_txs = <<>>
        /\ submit_calls = <<>>

\* C14 witness: the selection error for a non-empty wallet and a
\* specification that requires no transaction
C14_Witness ==
    /\ ScenarioE
    /\ EmptyUpdate
    /\ input.unspent_boxes # <<>>
    /\ pc = "Failed"
    /\ err = "BoxSelector"

\* a stage is triggered whose mint details the specification lacks
RefreshDetailsLacking ==
    RefreshStageRequested /\ ~update_config.tokens_to_mint.refresh_nft

UpdateDetailsLacking ==
    UpdateStageRequested /\ ~update_config.tokens_to_mint.update_nft

\* the step taken leaves the log, the working configuration and the
\* submissions alone and ends the run with one of the errors es
FailsWith(es) ==
    /\ pc' = "Failed"
    /\ err' \in es
    /\ UNCHANGED <<built_txs, new_oracle_config, submit_calls>>

\* C15: a run whose refresh stage is triggered without refresh-mint
\* details, or whose update stage is triggered without update-mint details,
\* never returns a configuration and never submits anything; the refresh
\* stage then ends the run with the missing-mint-details error, and so does
\* the update stage unless rebuilding the update contract, which comes
\* first, has already failed.
C15_MissingMintDetailsFail ==
    /\ []((RefreshDetailsLacking \/ UpdateDetailsLacking) =>
              (pc # "Done" /\ submit_calls = <<>>))
    /\ [][/\ (pc = "RefreshMint" /\ RefreshDetailsLacking) =>
                 FailsWith({"NoMintDetails"})
          /\ (pc = "UpdateStage" /\ UpdateDetailsLacking) =>
                 FailsWith({"NoMintDetails", "UpdateContract"})]_vars

\* C15 witness: the update stage, entered by a ballot mint after a completed
\* refresh stage, ended the run for want of update-mint details
C15_Witness ==
    /\ UpdateDetailsLacking
    /\ ~RefreshDetailsLacking
    /\ RefreshStageRequested
    /\ pc = "Failed"
    /\ err = "NoMintDetails"
    /\ Len(built_txs) >= 3
    /\ submit_calls = <<>>

\* the asset identities that differ between the starting and the working
\* registry
ChangedIds ==
    {f \in DOMAIN config.token_ids :
        new_oracle_config.token_ids[f] # config.token_ids[f]}

\* the identities each parameter set is built from
PoolDependencies ==
    {"refresh_nft_token_id", "update_nft_token_id", "pool_nft_token_id",
     "reward_token_id"}

BallotDependencies == {"ballot_token_id", "update_nft_token_id"}

RefreshDependencies ==
    {"oracle_token_id", "pool_nft_token_id", "refresh_nft_token_id"}

UpdateDependencies ==
    {"pool_nft_token_id", "ballot_token_id", "update_nft_token_id"}

\* the parameter sets as rebuilt from the working registry, each with the
\* explicit template when one was supplied and its starting one otherwise
PoolRebuilt ==
    PoolBoxWrapperInputs(
        TemplateAfter(update_config.pool_contract_parameters,
                      config.pool_box_wrapper_inputs.contract_inputs
                          .contract_parameters),
        new_oracle_config.token_ids.refresh_nft_token_id,
        new_oracle_config.token_ids.update_nft_token_id,
        new_oracle_config.token_ids.pool_nft_token_id,
        new_oracle_config.token_ids.reward_token_id)

BallotRebuilt ==
    BallotBoxWrapperInputs(
        config.ballot_box_wrapper_inputs.contract_inputs.contract_parameters,
        new_oracle_config.token_ids.ballot_token_id,
        new_oracle_config.token_ids.update_nft_token_id)

RefreshRebuilt ==
    RefreshBoxWrapperInputs(
        TemplateAfter(update_config.refresh_contract_parameters,
                      config.refresh_box_wrapper_inputs.contract_inputs
                          .contract_parameters),
        new_oracle_config.token_ids.oracle_token_id,
        new_oracle_config.token_ids.pool_nft_token_id,
        new_oracle_config.token_ids.refresh_nft_token_id)

UpdateRebuilt ==
    UpdateBoxWrapperInputs(
        TemplateAfter(update_config.update_contract_parameters,
                      config.update_box_wrapper_inputs.contract_inputs
                          .contract_parameters),
        new_oracle_config.token_ids.pool_nft_token_id,
        new_oracle_config.token_ids.ballot_token_id,
        new_oracle_config.token_ids.update_nft_token_id)

\* a parameter set follows its dependencies: rebuilt when one of them
\* changed, the starting one when none changed and no template was supplied
FollowsDependencies(field, deps, explicit, rebuilt) ==
    /\ deps \cap ChangedIds # {} => new_oracle_config[field] = rebuilt
    /\ (deps \cap ChangedIds = {} /\ explicit = "none") =>
           new_oracle_config[field] = config[field]

\* C16: in every returned configuration each parameter set is rebuilt when
\* an identity it depends on changed in the run and passed through
\* otherwise; the pool parameter set in particular whenever the refresh,
\* update, reward or pool identity was newly minted, the reward one alone
\* included.
C16_RebuiltWhenDependencyChanged ==
    pc = "Done" =>
        /\ FollowsDependencies("pool_box_wrapper_inputs", PoolDependencies,
                               update_config.pool_contract_parameters,
                               PoolRebuilt)
        /\ FollowsDependencies("ballot_box_wrapper_inputs",
                               BallotDependencies, "none", BallotRebuilt)
        /\ FollowsDependencies("refresh_box_wrapper_inputs",
                               RefreshDependencies,
                               update_config.refresh_contract_parameters,
                               RefreshRebuilt)
        /\ FollowsDependencies("update_box_wrapper_inputs",
                               UpdateDependencies,
                               update_config.update_contract_parameters,
                               UpdateRebuilt)

\* a parameter set of the returned configuration was rebuilt (it is the
\* rebuilt one and no longer the starting one) exactly when `when` holds
RebuiltIff(field, rebuilt, when) ==
    IF when
    THEN new_oracle_config[field] = rebuilt
         /\ new_oracle_config[field] # config[field]
    ELSE new_oracle_config[field] = config[field]

\* C17: in every returned configuration the ballot parameter set is rebuilt
\* if and only if the update stage ran, which is when the update NFT
\* identity changed, and the pool parameter set is rebuilt if and only if
\* pool parameters were supplied or the refresh stage ran or the update
\* stage ran.
C17_CascadeRuleTable ==
    pc = "Done" =>
        /\ UpdateStageRequested <=> "update_nft_token_id" \in ChangedIds
        /\ RefreshStageRequested <=> "refresh_nft_token_id" \in ChangedIds
        /\ need_ballot_contract_update <=> UpdateStageRequested
        /\ need_pool_contract_update <=>
               (RefreshStageRequested \/ UpdateStageRequested)
        /\ RebuiltIff("ballot_box_wrapper_inputs", BallotRebuilt,
                      UpdateStageRequested)
        /\ RebuiltIff("pool_box_wrapper_inputs", PoolRebuilt,
                      \/ update_config.pool_contract_parameters # "none"
                      \/ RefreshStageRequested
                      \/ UpdateStageRequested)

\* C17 witness: the update stage alone ran, and both the ballot and the
\* pool parameter set of the returned configuration were rebuilt
C17_Witness ==
    /\ pc = "Done"
    /\ UpdateStageRequested
    /\ ~RefreshStageRequested
    /\ update_config.pool_contract_parameters = "none"
    /\ new_oracle_config.ballot_box_wrapper_inputs
           # config.ballot_box_wrapper_inputs
    /\ new_oracle_config.pool_box_wrapper_inputs
           # config.pool_box_wrapper_inputs

\* the parameter template inside a parameter set
TemplateOf(wrapper) == wrapper.contract_inputs.contract_parameters

\* the template of a parameter set is the starting one unless new
\* parameters were supplied for it, and when it was rebuilt without them it
\* is the starting set with the current identities embedded
KeepsTemplate(field, explicit, rebuilt) ==
    explicit = "none" =>
        /\ TemplateOf(new_oracle_config[field]) = TemplateOf(config[field])
        /\ pc = "Done" => new_oracle_config[field] \in {config[field], rebuilt}

\* C18: a contract rebuilt without explicit new parameters keeps the
\* parameter template of the starting configuration; only the embedded
\* asset identities differ.
C18_TemplateReused ==
    /\ KeepsTemplate("refresh_box_wrapper_inputs",
                     update_config.refresh_contract_parameters,
                     RefreshRebuilt)
    /\ KeepsTemplate("update_box_wrapper_inputs",
                     update_config.update_contract_parameters, UpdateRebuilt)
    /\ KeepsTemplate("ballot_box_wrapper_inputs", "none", BallotRebuilt)
    /\ KeepsTemplate("pool_box_wrapper_inputs",
                     update_config.pool_contract_parameters, PoolRebuilt)

\* C18 witness: all four contracts were rebuilt with no parameters supplied
C18_Witness ==
    /\ pc = "Done"
    /\ update_config.refresh_contract_parameters = "none"
    /\ update_config.update_contract_parameters = "none"
    /\ update_config.pool_contract_parameters = "none"
    /\ \A f \in {"refresh_box_wrapper_inputs", "update_box_wrapper_inputs",
                 "ballot_box_wrapper_inputs", "pool_box_wrapper_inputs"} :
           /\ new_oracle_config[f] # config[f]
           /\ TemplateOf(new_oracle_config[f]) = TemplateOf(config[f])

\* the stages of execute in program order, and the two ends of a run
StageOrder ==
    <<"InitialSelection", "OracleMint", "BallotMint", "RewardMint",
      "RefreshMint", "RefreshBox", "UpdateStage", "BallotCascade",
      "PoolCascade", "Submit", "Done">>

Rank(stage) == CHOOSE i \in DOMAIN StageOrder : StageOrder[i] = stage

\* the stages that sign a transaction
SigningStages ==
    {"OracleMint", "BallotMint", "RewardMint", "RefreshMint", "RefreshBox",
     "UpdateStage"}

\* C19: execute moves through its stages in the fixed order (selection,
\* oracle, ballot and reward mint, refresh mint and refresh box, update
\* stage, ballot cascade, pool cascade, submission); each step of a stage
\* either hands over to the next stage or ends the run in Failed; a
\* transaction is signed only in a signing stage that completes, the ballot
\* and pool parameter sets are written only in their cascades, submission
\* happens only in the submit stage, and nothing happens after Failed or
\* after the configuration is returned.
C19_StageOrder ==
    [][/\ pc \notin {"Failed", "Done"}
       /\ pc' # pc =>
              \/ pc' = "Failed"
              \/ Rank(pc') = Rank(pc) + 1
              \/ pc = "RefreshMint" /\ pc' = "UpdateStage"
                                    /\ ~RefreshStageRequested
       /\ pc' = pc => pc = "Submit"
       /\ built_txs' # built_txs =>
              /\ pc \in SigningStages
              /\ pc' # "Failed"
              /\ Len(built_txs') = Len(built_txs) + 1
       /\ new_oracle_config'.ballot_box_wrapper_inputs
              # new_oracle_config.ballot_box_wrapper_inputs =>
              pc = "BallotCascade" /\ pc' = "PoolCascade"
       /\ new_oracle_config'.pool_box_wrapper_inputs
              # new_oracle_config.pool_box_wrapper_inputs =>
              pc = "PoolCascade" /\ pc' = "Submit"
       /\ submit_calls' # submit_calls => pc = "Submit"
       /\ pc # "Submit" => submit_calls = <<>>]_vars

\* C19 witness: the run ended in the ballot cascade after three signed
\* transactions, with the pool parameter set untouched and nothing
\* submitted
C19_Witness ==
    /\ pc = "Failed"
    /\ err = "BallotContract"
    /\ Len(built_txs) >= 3
    /\ new_oracle_config.pool_box_wrapper_inputs
           = config.pool_box_wrapper_inputs
    /\ submit_calls = <<>>

\* the first k transactions of this run consume the records the first k
\* transactions of the earlier run consumed
SameInputsUpTo(k) ==
    \A j \in 1..k : built_txs[j].inputs = prior_run.built_txs[j].inputs

\* C20 as stated: a second run from the same unspent set, height and
\* specification rebuilds the same set of contracts as the first, and none
\* of the identities it mints was minted by the first.
C20_RerunFreshIds_Original ==
    (prior_run.ran /\ PastPoolCascade) =>
        /\ RebuiltContracts = prior_run.rebuilt
        /\ MintedTokens(steps) \cap MintedTokens(prior_run.steps) = {}

\* C20 amended: a second run from the same unspent set, height and
\* specification rebuilds the same set of contracts as the first; the
\* identity of each mint is the identity of the first record its
\* transaction consumes, so the first identity of either run is that of a
\* record of the starting unspent set, and as long as the second run
\* consumes the same records as the first it mints the same identities.
C20_RerunSameContracts ==
    prior_run.ran =>
        /\ PastPoolCascade => RebuiltContracts = prior_run.rebuilt
        /\ prior_run.steps[1].token \in Ids(input.unspent_boxes)
        /\ \A k \in DOMAIN steps :
               steps[k].kind = "mint" =>
                   /\ steps[k].token = built_txs[k].inputs[1].id
                   /\ k = 1 => steps[k].token \in Ids(input.unspent_boxes)
                   /\ SameInputsUpTo(k) =>
                          steps[k].token = prior_run.steps[k].token

\* C20 witness: the second run returned its configuration having minted
\* the first identity of the first run again
C20_Witness ==
    /\ prior_run.ran
    /\ pc = "Done"
    /\ Len(steps) >= 2
    /\ RebuiltContracts # {}
    /\ steps[1].token = prior_run.steps[1].token

\* C21: execute never modifies the configuration it was constructed with:
\* in every state of a run, returned or failed, self.config is the
\* configuration given at construction and no step changes it; the changes
\* go to the working copy.
C21_StartingConfigUntouched ==
    /\ [](config = StartConfig)
    /\ [][config' = config]_vars

\* C21 witness: a run failed after its working copy had received a new
\* identity and a rebuilt parameter set
C21_Witness ==
    /\ pc = "Failed"
    /\ config = StartConfig
    /\ new_oracle_config.token_ids # config.token_ids
    /\ new_oracle_config.refresh_box_wrapper_inputs
           # config.refresh_box_wrapper_inputs

\* every logged transaction was submitted and accepted, in order
AllSubmitted ==
    /\ Len(submit_calls) = Len(built_txs)
    /\ \A i \in DOMAIN submit_calls :
           submit_calls[i].ok /\ submit_calls[i].tx = built_txs[i]

\* C22: prepare_update touches a file only after execute has returned its
\* configuration, which is after every logged transaction was submitted;
\* the file it touches is the one at ArtifactPath, which on success holds
\* the returned configuration; when execute fails the files are as they
\* were; the file the starting configuration was read from is never
\* written.
C22_ArtifactOnlyAfterSuccess ==
    /\ [](files[InputConfigPath] = OracleConfigYaml(StartConfig))
    /\ [](pc \notin {"Done", "Written", "Failed"} =>
              files[ArtifactPath] \in {NoFile, StaleFile})
    /\ []((pc = "Failed" /\ err \notin {"SerdeYaml", "Io"}) =>
              files[ArtifactPath] \in {NoFile, StaleFile})
    /\ [](pc = "Written" =>
              /\ files[ArtifactPath] = OracleConfigYaml(new_oracle_config)
              /\ AllSubmitted)
    /\ [][files' # files =>
              /\ pc = "Done"
              /\ AllSubmitted
              /\ \A p \in DOMAIN files :
                     files'[p] # files[p] => p = ArtifactPath]_vars

\* C22 witness: the file of an earlier run was replaced by the
\* configuration returned after three submitted transactions
C22_Witness ==
    /\ pc = "Written"
    /\ Len(submit_calls) >= 3
    /\ files[ArtifactPath] = OracleConfigYaml(new_oracle_config)
    /\ new_oracle_config # StartConfig
    /\ files[InputConfigPath] = OracleConfigYaml(StartConfig)

\* the update specification of test_prepare_update_transaction: all five
\* mints and all three parameter sets
FullUpdate ==
    /\ update_config.pool_contract_parameters # "none"
    /\ update_config.refresh_contract_parameters # "none"
    /\ update_config.update_contract_parameters # "none"
    /\ \A t \in DOMAIN update_config.tokens_to_mint :
           update_config.tokens_to_mint[t]

\* the wallet covers the target of the whole budget
WalletCovers ==
    LET whole == calc_target_balance(input.erg_value_per_box, input.tx_fee,
                                     InitialBudget)
    IN  whole.ok /\ SumValues(input.unspent_boxes) >= whole.v

\* the errors that come from a collaborator (wallet, builders, signer,
\* contract loaders, node) or from a mint quantity that is no TokenAmount
CollaboratorErrors ==
    {"WalletData", "Panic", "BoxBuilder", "TxBuilder", "Sign",
     "RefreshContract", "UpdateContract", "BallotContract", "PoolContract",
     "Node"}

\* execute takes a step that does not end it with an error
StepWithoutError == Next /\ pc' # "Failed"

\* C23: for the specification with all five mints and all three parameter
\* sets and a wallet covering calc_target_balance(7), execute can always go
\* on unless a collaborator fails (it never runs out of value, overflows or
\* misses mint details), so with collaborators that never fail it returns;
\* the returned configuration has six logged and submitted transactions and
\* a registry that differs from the starting one.
C23_FullUpdateSucceeds ==
    (FullUpdate /\ WalletCovers) =>
        /\ pc \notin {"Done", "Failed"} => ENABLED StepWithoutError
        /\ pc = "Failed" => err \in CollaboratorErrors
        /\ pc = "Done" =>
               /\ new_oracle_config.token_ids # config.token_ids
               /\ ChangedIds = DOMAIN config.token_ids \ {"pool_nft_token_id"}
               /\ Len(built_txs) = 6
               /\ AllSubmitted

\* C23 witness: the full update returned its configuration
C23_Witness ==
    /\ FullUpdate
    /\ WalletCovers
    /\ pc = "Done"
    /\ new_oracle_config.token_ids # config.token_ids

\* C24: once the budget is fixed to 7, the logged transactions and
\* num_transactions_left add up to 7; no run has more than six steps, so the
\* counter is at least 1 when the broadcast begins, and every step started
\* from a counter of at least 2, so that none computed a remainder for zero
\* remaining steps.
C24_BudgetAccounting ==
    pc \notin {"InitialSelection", "Calc", "CalcDone"} =>
        /\ Len(built_txs) + num_transactions_left = InitialBudget
        /\ Len(built_txs) <= InitialBudget - 1
        /\ Len(steps) = Len(built_txs)
        /\ pc \in {"Submit", "Done", "Written"} => num_transactions_left >= 1
        /\ \A k \in DOMAIN steps :
               /\ steps[k].left = InitialBudget - (k - 1)
               /\ steps[k].left - 1 >= 1

\* C24 witness: a run of six steps returned, its last step started from a
\* counter of 2
C24_Witness ==
    /\ pc = "Done"
    /\ Len(steps) = 6
    /\ steps[6].left = 2
    /\ num_transactions_left = 1

\* the initial selection has succeeded
InitialSelectionDone ==
    /\ pc \notin {"InitialSelection", "Calc", "CalcDone"}
    /\ inputs_for_next_tx # <<>>

\* the assets the step of the current stage requires of its selection
StageTargetTokens ==
    IF pc = "RefreshBox"
    THEN {new_oracle_config.token_ids.refresh_nft_token_id}
    ELSE {}

\* C25: once the initial selection has succeeded, the spendable set is
\* always worth at least calc_target_balance(num_transactions_left), the
\* target of the next step, also after a step whose first output went to a
\* contract guard; so every later step finds a selection it can build a
\* balanced transaction from, and no run ends with a selection or balance
\* error after the initial selection.
C25_SpendableCoversRemainingSteps ==
    InitialSelectionDone =>
        LET need == calc_target_balance(input.erg_value_per_box,
                                        input.tx_fee, num_transactions_left)
        IN  /\ need.ok
            /\ SumValues(inputs_for_next_tx) >= need.v
            /\ pc \in SigningStages => StepSelections(StageTargetTokens) # {}
            /\ pc = "Failed" => err \notin {"BoxSelector", "BoxValue"}

\* C25 witness: after the update NFT went to the update contract and the
\* change left the wallet, the spendable set is worth exactly the target of
\* the counter
C25_Witness ==
    /\ InitialSelectionDone
    /\ pc = "BallotCascade"
    /\ steps # <<>>
    /\ steps[Len(steps)].override # NoGuard
    /\ input.change_tree = OtherChangeTree
    /\ SumValues(inputs_for_next_tx) =
           calc_target_balance(input.erg_value_per_box, input.tx_fee,
                               num_transactions_left).v

\* the errors of mint_token and build_refresh_box: selection, balance
\* computation, output and transaction building, signing
StepErrorKinds == {"BoxSelector", "BoxValue", "BoxBuilder", "TxBuilder", "Sign"}

\* C26: a step that fails at coin selection, balance computation, output or
\* transaction building or signing leaves the orchestrator as it was when
\* the step began: num_transactions_left, inputs_for_next_tx and built_txs
\* are unchanged, and so they are in the state the run ends in.
C26_FailedStepLeavesState ==
    [][(pc \in SigningStages /\ pc' = "Failed" /\ err' \in StepErrorKinds) =>
           /\ num_transactions_left' = num_transactions_left
           /\ inputs_for_next_tx' = inputs_for_next_tx
           /\ built_txs' = built_txs
           /\ Len(built_txs') + num_transactions_left' = InitialBudget]_vars

\* C26 witness: the signer failed in the fourth step and the counter, the
\* spendable set and the log are those the third step left
C26_Witness ==
    /\ pc = "Failed"
    /\ err = "Sign"
    /\ Len(built_txs) = 3
    /\ num_transactions_left = InitialBudget - 3
    /\ inputs_for_next_tx = filter_tx_outputs(built_txs[3].outputs)

\* 1 for a condition that holds, 0 otherwise
Count(b) == IF b THEN 1 ELSE 0

\* the transactions the update specification calls for: one per requested
\* oracle, ballot and reward mint, two for a triggered refresh stage, one
\* for a triggered update stage
ExpectedTransactions ==
    LET m == update_config.tokens_to_mint
    IN  Count(m.oracle_tokens) + Count(m.ballot_tokens)
        + Count(m.reward_tokens)
        + 2 * Count(update_config.refresh_contract_parameters # "none"
                    \/ m.oracle_tokens)
        + Count(update_config.update_contract_parameters # "none"
                \/ m.ballot_tokens)

\* nothing in the update specification triggers a mint or a stage
TriggersNothing ==
    LET m == update_config.tokens_to_mint
    IN  /\ ~m.oracle_tokens /\ ~m.ballot_tokens /\ ~m.reward_tokens
        /\ update_config.refresh_contract_parameters = "none"
        /\ update_config.update_contract_parameters = "none"

\* C27: a returned run has signed and submitted one transaction per
\* requested oracle, ballot and reward mint, two more if the refresh stage
\* was triggered and one more if the update stage was; refresh-mint or
\* update-mint details without their trigger mint nothing; and a
\* specification that triggers nothing signs nothing and returns the
\* starting configuration, but for the pool parameter set when pool
\* parameters were supplied.
C27_TransactionCount ==
    pc = "Done" =>
        LET m == update_config.tokens_to_mint
        IN  /\ Len(built_txs) = ExpectedTransactions
            /\ Len(submit_calls) = ExpectedTransactions
            /\ \A i \in DOMAIN submit_calls : submit_calls[i].ok
            /\ (update_config.refresh_contract_parameters = "none"
                    /\ ~m.oracle_tokens) =>
                   "refresh_nft_token_id" \notin ChangedIds
            /\ (update_config.update_contract_parameters = "none"
                    /\ ~m.ballot_tokens) =>
                   "update_nft_token_id" \notin ChangedIds
            /\ Cardinality(MintedTokens(steps)) = Cardinality(ChangedIds)
            /\ TriggersNothing =>
                   /\ built_txs = <<>>
                   /\ update_config.pool_contract_parameters = "none" =>
                          new_oracle_config = config
                   /\ new_oracle_config =
                          [config EXCEPT !.pool_box_wrapper_inputs =
                              new_oracle_config.pool_box_wrapper_inputs]

\* C27 witness: both NFT mint details were supplied without a trigger and
\* with new pool parameters: nothing was signed and only the pool parameter
\* set differs from the starting configuration
C27_Witness ==
    /\ pc = "Done"
    /\ TriggersNothing
    /\ update_config.tokens_to_mint.refresh_nft
    /\ update_config.tokens_to_mint.update_nft
    /\ update_config.pool_contract_parameters # "none"
    /\ built_txs = <<>>
    /\ new_oracle_config # config

\* the identities embedded in the parameter sets of cfg are those of its
\* registry
SelfConsistent(cfg) ==
    LET ids == cfg.token_ids
        refresh == cfg.refresh_box_wrapper_inputs
        update == cfg.update_box_wrapper_inputs
        ballot == cfg.ballot_box_wrapper_inputs
        pool == cfg.pool_box_wrapper_inputs
    IN  /\ refresh.contract_inputs.oracle_token_id = ids.oracle_token_id
        /\ refresh.contract_inputs.pool_nft_token_id = ids.pool_nft_token_id
        /\ refresh.refresh_nft_token_id = ids.refresh_nft_token_id
        /\ update.contract_inputs.pool_nft_token_id = ids.pool_nft_token_id
        /\ update.contract_inputs.ballot_token_id = ids.ballot_token_id
        /\ update.update_nft_token_id = ids.update_nft_token_id
        /\ ballot.ballot_token_id = ids.ballot_token_id
        /\ ballot.contract_inputs.update_nft_token_id = ids.update_nft_token_id
        /\ pool.contract_inputs.refresh_nft_token_id
               = ids.refresh_nft_token_id
        /\ pool.contract_inputs.update_nft_token_id = ids.update_nft_token_id
        /\ pool.pool_nft_token_id = ids.pool_nft_token_id
        /\ pool.reward_token_id = ids.reward_token_id

\* C28: a configuration returned from a self-consistent starting
\* configuration is self-consistent: every parameter set embeds the
\* identities of the registry.
C28_ReturnedConfigSelfConsistent ==
    (pc = "Done" /\ SelfConsistent(config)) =>
        SelfConsistent(new_oracle_config)

\* C29: no run changes the pool NFT identity: the registry of the working
\* configuration, and so of every returned one, has the pool identity of
\* the starting configuration, and the refresh, update and pool parameter
\* sets, rebuilt or not, embed that same identity.
C29_PoolIdentityFixed ==
    LET pool_id == StartConfig.token_ids.pool_nft_token_id
    IN  /\ new_oracle_config.token_ids.pool_nft_token_id = pool_id
        /\ new_oracle_config.refresh_box_wrapper_inputs.contract_inputs
               .pool_nft_token_id = pool_id
        /\ new_oracle_config.update_box_wrapper_inputs.contract_inputs
               .pool_nft_token_id = pool_id
        /\ new_oracle_config.pool_box_wrapper_inputs.pool_nft_token_id
               = pool_id
        /\ pool_id \notin MintedTokens(steps)
        /\ \A b \in AllOutputs :
               b.ergo_tree.kind \in {"refresh", "update"} =>
                   pool_id \in {b.ergo_tree.t1, b.ergo_tree.t2}

\* C29 witness: a returned configuration whose refresh, update and pool
\* parameter sets were all rebuilt
C29_Witness ==
    /\ pc = "Done"
    /\ {"refresh_box_wrapper_inputs", "update_box_wrapper_inputs",
        "pool_box_wrapper_inputs"} \subseteq RebuiltContracts
    /\ new_oracle_config.token_ids.pool_nft_token_id
           = StartConfig.token_ids.pool_nft_token_id

\* the boxes of a sequence that carry the asset
Carriers(boxes, asset) == {b \in Range(boxes) : asset \in b.tokens}

\* the steps that built a refresh box (at most one in a run)
RefreshBoxSteps == {k \in DOMAIN steps : steps[k].kind = "refresh_box"}

\* C30: when build_refresh_box is about to run, the step just before it
\* minted the refresh NFT to the wallet guard and the box carrying it is in
\* the spendable set; build_refresh_box consumes that box; from then on the
\* only output carrying the NFT is the refresh box, guarded by the rebuilt
\* refresh contract, and the spendable set holds no box with it.
C30_RefreshNftIntoRefreshBox ==
    LET nft == new_oracle_config.token_ids.refresh_nft_token_id
    IN  /\ pc = "RefreshBox" =>
               /\ steps[Len(steps)].kind = "mint"
               /\ steps[Len(steps)].token = nft
               /\ LastTx.outputs[1].ergo_tree = wallet_pk_ergo_tree
               /\ LastTx.outputs[1] \in Carriers(inputs_for_next_tx, nft)
        /\ \A k \in RefreshBoxSteps :
               /\ k > 1
               /\ steps[k - 1].kind = "mint"
               /\ steps[k - 1].token = nft
               /\ built_txs[k - 1].outputs[1].ergo_tree = wallet_pk_ergo_tree
               /\ built_txs[k - 1].outputs[1]
                      \in Carriers(built_txs[k].inputs, nft)
               /\ Carriers(built_txs[k].outputs, nft)
                      = {built_txs[k].outputs[1]}
               /\ built_txs[k].outputs[1].ergo_tree =
                      RefreshErgoTree(new_oracle_config
                          .refresh_box_wrapper_inputs.contract_inputs)
               /\ built_txs[k].outputs[1].ergo_tree # wallet_pk_ergo_tree
               /\ Carriers(inputs_for_next_tx, nft) = {}
               /\ \A j \in (k + 1)..Len(built_txs) :
                      /\ Carriers(built_txs[j].inputs, nft) = {}
                      /\ Carriers(built_txs[j].outputs, nft) = {}

\* C30 witness: the update mint followed the refresh stage and the refresh
\* NFT stayed in the refresh box alone
C30_Witness ==
    /\ pc = "Done"
    /\ RefreshBoxSteps # {}
    /\ \E k \in RefreshBoxSteps :
           /\ Len(built_txs) > k
           /\ built_txs[k].outputs[1].ergo_tree.kind = "refresh"
           /\ new_oracle_config.token_ids.refresh_nft_token_id
                  \in built_txs[k].outputs[1].tokens

\* --------------------------------------------------------------- C31
\* the hints were computed: print_hints_for_voting got past its reads
HintsComputed == hints.outcome # "none"

\* the estimate of the epoch i, as an integer
RewardEstimate(node, count, i) ==
    node.reward_tokens_left - (i + 1) * 2 * count

\* C31: whenever print_hints_for_voting has computed its hints, after the
\* new configuration was written, it printed all ProjectedEpochs lines, its
\* minimum oracle box height is current_height - epoch_length, and the
\* estimate of every epoch i is reward_tokens_left - (i+1)*2*count, each as
\* an integer that is not negative: nothing underflowed, panicked or wrapped.
C31_HintsWithoutUnderflow ==
    HintsComputed =>
        /\ files[ArtifactPath] = OracleConfigYaml(new_oracle_config)
        /\ hints.outcome = "ok"
        /\ hints.node.current_height - hints.node.epoch_length >= 0
        /\ hints.min_oracle_box_height =
               hints.node.current_height - hints.node.epoch_length
        /\ Len(hints.lines) = ProjectedEpochs
        /\ \A i \in 0..(ProjectedEpochs - 1) :
               /\ RewardEstimate(hints.node, hints.active_oracle_count, i) >= 0
               /\ hints.lines[i + 1].reward =
                      RewardEstimate(hints.node, hints.active_oracle_count, i)

====
